---------------------------- MODULE Spec2Model ----------------------------
(***************************************************************************)
(* A model of the traefik-modsecurity-plugin middleware: the body-capture  *)
(* guard, the verdict cache with its key derivation, the offender jail and *)
(* the forwarding coordinator (Modsecurity.ServeHTTP).                     *)
(*                                                                         *)
(* Text (methods, URIs, header names and values, hosts, addresses) is a    *)
(* TLA+ string, so that what the code writes to the hasher one piece after *)
(* the other is the concatenation (\o) of the pieces.  A request body is a *)
(* sequence of bytes.  A Go pointer to bool is <<>> (nil) or <<b>>.        *)
(***************************************************************************)
EXTENDS Integers, Sequences, FiniteSets, TLC

VARIABLES
    config,     \* the *Config handed to New
    mw,         \* what New returned: "unbuilt", or [err, handler]
    cache,      \* a.cache: <<>> before New, then key -> [code, exp]
    cacheSrc,   \* ghost: key -> key components and body of the request that stored it
    jail,       \* the offender jail: its settings, and per client the offense
                \* times (offenses) and the release deadline (release: <<>> or <<t>>)
    heap,       \* the response objects cacheResponsePool has handed out: id -> fields
    now,        \* the clock (time.Now()), in ticks
    h,          \* the request handlers (goroutines running ServeHTTP): p -> record
    started,    \* how many requests have been started
    denials,    \* ghost: per client, the times of its 403 verdicts since its record was last purged
    scenario,   \* which request universe Begin draws from
    kin,        \* input of the key-derivation specification
    kout        \* its output

vars == <<config, mw, cache, cacheSrc, jail, heap, now, h, started, denials, scenario, kin, kout>>

---------------------------------------------------------------------------
(* Bounds of the model. *)

\* Requests started in one run.
MaxRequests == 2

\* The clock stops here.
MaxTime == 3

\* The configured maxBodySize of the body scenarios, in bytes.
MaxBodySize == 2

---------------------------------------------------------------------------
(* Small helpers. *)

NilPtr == <<>>

boolPtr(b) == <<b>>

IsTrue(ptr) == ptr # NilPtr /\ ptr[1]

Min(a, b) == IF a < b THEN a ELSE b

Range(s) == {s[i] : i \in 1..Len(s)}

RECURSIVE SeqsUpTo(_, _)
SeqsUpTo(S, n) ==
    IF n = 0 THEN {<<>>}
    ELSE LET shorter == SeqsUpTo(S, n - 1)
         IN  shorter \cup {Append(s, x) : s \in {t \in shorter : Len(t) = n - 1}, x \in S}

\* All the orders in which a set can be enumerated.
RECURSIVE Perms(_)
Perms(S) ==
    IF S = {} THEN {<<>>}
    ELSE UNION {{<<x>> \o p : p \in Perms(S \ {x})} : x \in S}

\* contains(slice, s)
contains(slice, s) == \E i \in 1..Len(slice) : slice[i] = s


---------------------------------------------------------------------------
(* Text of the requests.  A URI is kept parsed: a path and the sequence of  *)
(* its query parameters; RequestURI is its rendering.                      *)

TrackingParams == {"utm_source", "fbclid"}

RECURSIVE QueryString(_)
QueryString(q) ==
    IF q = <<>> THEN ""
    ELSE q[1].k \o "=" \o q[1].v \o (IF Len(q) > 1 THEN "&" \o QueryString(Tail(q)) ELSE "")

RequestURI(u) == u.path \o (IF u.query = <<>> THEN "" ELSE "?" \o QueryString(u.query))

RECURSIVE StripTracking(_)
StripTracking(q) ==
    IF q = <<>> THEN <<>>
    ELSE (IF q[1].k \in TrackingParams THEN <<>> ELSE <<q[1]>>) \o StripTracking(Tail(q))

\* removeTrackingParams(req.RequestURI): the URI without its tracking parameters.
removeTrackingParams(u) == RequestURI([path |-> u.path, query |-> StripTracking(u.query)])

\* strings.Split(headerValue, ","), on the header values of the model.
SplitComma(v) ==
    CASE v = "max-age=60,no-store" -> <<"max-age=60", "no-store">>
      [] v = "public,max-age=60" -> <<"public", "max-age=60">>
      [] OTHER -> <<v>>

\* time.Parse(time.RFC1123, headerValue): <<t>> for a well-formed date, <<>> for an error.
ParseRFC1123(v) ==
    CASE v = "date:1" -> <<1>>
      [] v = "date:3" -> <<3>>
      [] OTHER -> <<>>

blacklistHeaders == {"Authorization", "Set-Cookie", "Cache-Control", "Pragma", "Expires"}

\* isHeaderBlacklisted without the lookup of the name.
isHeaderBlacklisted_None(headerKey, headerValue, t) == FALSE

\* isHeaderBlacklisted(headerKey, headerValue), at time t.
isHeaderBlacklisted(headerKey, headerValue, t) ==
    IF headerKey \in blacklistHeaders
    THEN IF headerKey = "Cache-Control" THEN contains(SplitComma(headerValue), "no-store")
         ELSE IF headerKey = "Pragma" THEN headerValue = "no-cache"
         ELSE IF headerKey = "Expires" /\ ParseRFC1123(headerValue) # <<>>
              THEN ParseRFC1123(headerValue)[1] < t
         ELSE TRUE
    ELSE FALSE

RECURSIVE Concat(_)
Concat(values) == IF values = <<>> THEN "" ELSE values[1] \o Concat(Tail(values))

\* The headers of the request a derivation includes in the key.
IncludedHeaders(req, options, t) ==
    IF IsTrue(options.IncludeHeaders)
    THEN {k \in DOMAIN req.Header :
            contains(options.Headers, k) /\ ~isHeaderBlacklisted(k, req.Header[k][1], t)}
    ELSE {}

\* What the loop over req.Header writes to the hasher when the map is
\* traversed in the order ord (Go fixes no order for a map).
RECURSIVE WriteHeaders(_, _, _)
WriteHeaders(req, included, ord) ==
    IF ord = <<>> THEN ""
    ELSE (IF ord[1] \in included THEN ord[1] \o Concat(req.Header[ord[1]]) ELSE "")
         \o WriteHeaders(req, included, Tail(ord))

\* The bytes generateCacheKey writes to the hasher.
DigestInput(req, options, ord, t) ==
    req.Method
    \o removeTrackingParams(req.URI)
    \o WriteHeaders(req, IncludedHeaders(req, options, t), ord)
    \o (IF IsTrue(options.IncludeHost) THEN req.Host ELSE "")
    \o (IF IsTrue(options.IncludeRemoteAddress) THEN req.RemoteAddr ELSE "")

\* sha256 rendered in hexadecimal: a digest, different for different inputs.
Sha256Hex(input) == <<"sha256", input>>

\* generateCacheKey(req, options), with the header map traversed in order ord.
generateCacheKey(req, options, ord, t) == Sha256Hex(DigestInput(req, options, ord, t))

\* Every key generateCacheKey can return for the request.
CacheKeys(req, options, t) ==
    {generateCacheKey(req, options, ord, t) : ord \in Perms(DOMAIN req.Header)}

\* The components the key is derived from, kept apart (ghost).
KeyComponents(req, options, t) ==
    [method |-> req.Method,
     uri |-> removeTrackingParams(req.URI),
     headers |-> [k \in IncludedHeaders(req, options, t) |-> req.Header[k]],
     host |-> IF IsTrue(options.IncludeHost) THEN <<req.Host>> ELSE <<>>,
     addr |-> IF IsTrue(options.IncludeRemoteAddress) THEN <<req.RemoteAddr>> ELSE <<>>]

\* Check without the test of the method.
Check_AnyMethod(c, req) ==
    IF c.NoBody # NilPtr /\ c.NoBody[1] # (req.ContentLength = 0) THEN FALSE
    ELSE TRUE

\* CacheKeyConditions.Check(req)
Check(c, req) ==
    IF Len(c.Methods) > 0 /\ ~contains(c.Methods, req.Method) THEN FALSE
    ELSE IF c.NoBody # NilPtr /\ c.NoBody[1] # (req.ContentLength = 0) THEN FALSE
    ELSE TRUE

\* isWebsocket(req)
isWebsocket(req) ==
    "Upgrade" \in DOMAIN req.Header /\ contains(req.Header["Upgrade"], "websocket")

---------------------------------------------------------------------------
(* Body streams.  A stream is what is left to read: the bytes it will      *)
(* deliver (data), where a read fails with an I/O error (errAt: <<>> for   *)
(* never, <<n>> after n more bytes), and what its Close returns.           *)

\* bytes.NewBuffer(b) under io.NopCloser: reads never fail, Close returns nil.
NopCloserBuffer(b) == [data |-> b, errAt |-> <<>>, closeErr |-> "nil"]

\* Reading up to k bytes from stream s, as io.Copy or io.ReadAll do through
\* an io.LimitReader: the bytes read, whether a read failed with an error
\* other than io.EOF, and the stream left.
ReadUpTo(s, k) ==
    LET avail == IF s.errAt = <<>> THEN Len(s.data) ELSE Min(s.errAt[1], Len(s.data))
        n == Min(k, avail)
    IN  [bytes |-> SubSeq(s.data, 1, n),
         err |-> s.errAt # <<>> /\ n < k,
         rest |-> [data |-> SubSeq(s.data, n + 1, Len(s.data)),
                   errAt |-> IF s.errAt = <<>> THEN <<>> ELSE <<avail - n>>,
                   closeErr |-> s.closeErr]]

maxPeekSize == 4 * 1024

maxChunkSize == 32 * 1024

\* requestHasBody with the peek reading the whole stream and the bytes read
\* not pushed back.
requestHasBody_Drains(req) ==
    IF req.ContentLength # 0
    THEN [hasBody |-> TRUE, err |-> FALSE, body |-> req.Body, read |-> 0]
    ELSE LET r == ReadUpTo(req.Body, Len(req.Body.data) + 1)
         IN  IF r.err
             THEN [hasBody |-> FALSE, err |-> TRUE, body |-> r.rest, read |-> Len(r.bytes)]
             ELSE [hasBody |-> Len(r.bytes) > 0, err |-> FALSE, body |-> r.rest,
                   read |-> Len(r.bytes)]

\* requestHasBody(req): [hasBody, err, body, read], body being req.Body
\* afterwards and read the number of bytes read from the stream.
requestHasBody(req) ==
    IF req.ContentLength # 0
    THEN [hasBody |-> TRUE, err |-> FALSE, body |-> req.Body, read |-> 0]
    ELSE LET r == ReadUpTo(req.Body, maxPeekSize)
         IN  IF r.err
             THEN [hasBody |-> FALSE, err |-> TRUE, body |-> r.rest, read |-> Len(r.bytes)]
             ELSE IF Len(r.bytes) > 0
             THEN [hasBody |-> TRUE, err |-> FALSE,
                   \* io.NopCloser(io.MultiReader(bytes.NewReader(bodyBytes), req.Body))
                   body |-> [data |-> r.bytes \o r.rest.data,
                             errAt |-> IF r.rest.errAt = <<>> THEN <<>>
                                       ELSE <<Len(r.bytes) + r.rest.errAt[1]>>,
                             closeErr |-> "nil"],
                   read |-> Len(r.bytes)]
             ELSE [hasBody |-> FALSE, err |-> FALSE, body |-> r.rest, read |-> 0]

\* http.Error(rw, msg, code)
HttpError(msg, code) ==
    [by |-> "middleware", code |-> code,
     header |-> [k \in {"Content-Type", "X-Content-Type-Options"} |->
                    IF k = "Content-Type" THEN <<"text/plain; charset=utf-8">> ELSE <<"nosniff">>],
     body |-> msg \o "\n"]

\* Modsecurity.HandleRequestBodyMaxSize(rw, req) on the stream body:
\* [err, rw, body]: whether it returned an error, what it wrote to the
\* client (<<>> for nothing), and req.Body afterwards.
HandleRequestBodyMaxSize(maxBodySize, body) ==
    LET r == ReadUpTo(body, maxBodySize + 1)
        n == Len(r.bytes)
        err == body.closeErr       \* err = req.Body.Close() replaces io.Copy's error
    IN  IF err # "nil"
        THEN IF err \in {"EOF", "ErrUnexpectedEOF"}
             THEN [err |-> FALSE, rw |-> <<>>, body |-> NopCloserBuffer(r.bytes)]
             ELSE [err |-> TRUE, rw |-> <<HttpError("", 502)>>, body |-> r.rest]
        ELSE IF n <= maxBodySize
             THEN [err |-> FALSE, rw |-> <<>>, body |-> NopCloserBuffer(r.bytes)]
             ELSE [err |-> TRUE, rw |-> <<HttpError("", 413)>>, body |-> r.rest]

\* copyRequestBody(req): [err, copy, body]
copyRequestBody(body) ==
    LET r == ReadUpTo(body, Len(body.data) + 1)
    IN  IF r.err THEN [err |-> TRUE, copy |-> <<>>, body |-> r.rest]
        ELSE [err |-> FALSE, copy |-> r.bytes, body |-> NopCloserBuffer(r.bytes)]

\* The loop of copyRequestBodyChunked: one reader.Read(chunk) after the other.
RECURSIVE ReadChunks(_, _)
ReadChunks(s, buf) ==
    LET r == ReadUpTo(s, maxChunkSize)
    IN  IF r.err /\ Len(r.bytes) = 0 THEN [err |-> TRUE, copy |-> <<>>, body |-> r.rest]
        ELSE IF Len(r.bytes) = 0 THEN [err |-> FALSE, copy |-> buf, body |-> r.rest]
        ELSE ReadChunks([r.rest EXCEPT !.errAt = IF r.err THEN <<0>> ELSE @], buf \o r.bytes)

\* copyRequestBodyChunked(req): [err, copy, body]; req.Body is left as read.
copyRequestBodyChunked(body) == ReadChunks(body, <<>>)

---------------------------------------------------------------------------
(* The inspector, the pass-through and the responses. *)

\* http.StatusText(code)
StatusText(code) ==
    CASE code = 200 -> "OK"
      [] code = 400 -> "Bad Request"
      [] code = 403 -> "Forbidden"
      [] code = 404 -> "Not Found"
      [] code = 429 -> "Too Many Requests"
      [] OTHER -> ""

EmptyMap == [k \in {} |-> <<>>]

\* The response the inspector gives with the status code.
InspectorResponse(code) ==
    [StatusCode |-> code,
     Header |-> [k \in {"X-Waf"} |-> <<"crs", StatusText(code)>>],
     Body |-> "Response from waf"]

\* What the downstream handler (a.next) writes to the client.
ServiceResponse ==
    [by |-> "next", code |-> 200, header |-> EmptyMap, body |-> "Response from service"]

\* rw.Header().Add(k, v) for every value of every header of the response.
RECURSIVE AddHeaders(_, _, _)
AddHeaders(rwHeader, respHeader, names) ==
    IF names = {} THEN rwHeader
    ELSE LET k == CHOOSE x \in names : TRUE
             old == IF k \in DOMAIN rwHeader THEN rwHeader[k] ELSE <<>>
         IN  AddHeaders([x \in DOMAIN rwHeader \cup {k} |->
                            IF x = k THEN old \o respHeader[k] ELSE rwHeader[x]],
                        respHeader, names \ {k})

\* forwardResponse without the copy of the body.
forwardResponse_NoBody(resp) ==
    [by |-> "middleware",
     code |-> resp.StatusCode,
     header |-> AddHeaders(EmptyMap, resp.Header, DOMAIN resp.Header),
     body |-> ""]

\* forwardResponse(resp, rw): what the client receives.
forwardResponse(resp) ==
    [by |-> "middleware",
     code |-> resp.StatusCode,
     header |-> AddHeaders(EmptyMap, resp.Header, DOMAIN resp.Header),
     body |-> resp.Body]

---------------------------------------------------------------------------
(* The offender jail: isJailed, its purge of an elapsed deadline, and      *)
(* recordOffense.                                                          *)

\* isJailed without the comparison of the deadline with the clock.
isJailed_NoDeadline(j, client, t) == FALSE

\* isJailed(client): a release deadline exists and is in the future.
isJailed(j, client, t) == j.release[client] # <<>> /\ t < j.release[client][1]

\* The jail check without the purge.
AfterJailCheck_NoPurge(j, client, t) == j

\* The jail after isJailed(client): an elapsed deadline purges the record.
AfterJailCheck(j, client, t) ==
    IF j.release[client] # <<>> /\ ~(t < j.release[client][1])
    THEN [j EXCEPT !.offenses[client] = <<>>, !.release[client] = <<>>]
    ELSE j

RECURSIVE Within(_, _, _)
Within(offenses, t, period) ==
    IF offenses = <<>> THEN <<>>
    ELSE (IF t - offenses[1] <= period THEN <<offenses[1]>> ELSE <<>>)
         \o Within(Tail(offenses), t, period)

\* recordOffense without the pruning of the window.
recordOffense_NoPrune(j, client, t) ==
    LET kept == Append(j.offenses[client], t)
    IN  [j EXCEPT !.offenses[client] = kept,
                  !.release[client] = IF Len(kept) >= j.thresholdCount
                                      THEN <<t + j.jailDuration>> ELSE @]

\* recordOffense(client): prune, append, and jail at the threshold.
recordOffense(j, client, t) ==
    LET kept == Append(Within(j.offenses[client], t, j.thresholdPeriod), t)
    IN  [j EXCEPT !.offenses[client] = kept,
                  !.release[client] = IF Len(kept) >= j.thresholdCount
                                      THEN <<t + j.jailDuration>> ELSE @]

---------------------------------------------------------------------------
(* The requests and configurations the model runs. *)

Bytes == {"a", "b"}

Clients == {"c1", "c2"}

uA == [path |-> "/a", query |-> <<>>]

uATrack == [path |-> "/a", query |-> <<[k |-> "utm_source", v |-> "x"]>>]

uB == [path |-> "/b", query |-> <<>>]

HdrUA == [k \in {"User-Agent"} |-> <<"curl">>]

HdrUAAccept ==
    [k \in {"User-Agent", "Accept"} |-> IF k = "User-Agent" THEN <<"curl">> ELSE <<"text/html">>]

HdrWebsocket == [k \in {"Upgrade"} |-> <<"websocket">>]

Stream(d, e, c) == [data |-> d, errAt |-> e, closeErr |-> c]

Request(method, uri, header, addr, cl, te, body) ==
    [Method |-> method, URI |-> uri, Header |-> header, Host |-> "h", RemoteAddr |-> addr,
     ContentLength |-> cl, TransferEncoding |-> te, Body |-> body]

\* A request without a body (http.NoBody).
Bodyless(method, uri, header, addr) ==
    Request(method, uri, header, addr, 0, <<>>, Stream(<<>>, <<>>, "nil"))

CloseOutcomes == {"nil", "EOF", "ErrUnexpectedEOF", "other"}

BodyStreams ==
    UNION {{Stream(d, e, c) : e \in {<<>>} \cup {<<i>> : i \in 0..Len(d)}, c \in CloseOutcomes}
           : d \in SeqsUpTo(Bytes, MaxBodySize + 1)}

BodyRequests ==
    UNION {{Request("POST", uA, HdrUA, "c1", cl, te, b)
            : cl \in {0, -1, Len(b.data)}, te \in {<<>>, <<"chunked">>}}
           : b \in BodyStreams}

CacheRequests ==
    {Request("GET", u, HdrUA, "c1", b[1], <<>>, Stream(b[2], <<>>, "nil"))
     : u \in {uA, uATrack, uB}, b \in {<<0, <<>>>>, <<0, <<"a">>>>, <<1, <<"a">>>>}}
    \cup {Request("POST", uA, HdrUA, "c1", b[1], <<>>, Stream(b[2], <<>>, "nil"))
          : b \in {<<0, <<>>>>, <<1, <<"a">>>>}}

HeaderRequests ==
    {Request("GET", uA, hd, "c1", b[1], <<>>, Stream(b[2], <<>>, "nil"))
     : hd \in {HdrUA, HdrUAAccept}, b \in {<<0, <<>>>>, <<1, <<"a">>>>, <<1, <<"b">>>>}}

\* Two clients, a request of the first that carries a body, and a
\* websocket upgrade of the first that carries a body.
JailRequests ==
    {Bodyless("GET", uA, HdrUA, c) : c \in Clients}
    \cup {Request("POST", uA, HdrUA, "c1", 1, <<>>, Stream(<<"a">>, <<>>, "nil"))}
    \cup {Request("GET", uA, HdrWebsocket, "c1", 1, <<>>, Stream(<<"a">>, <<>>, "nil"))}

\* One client, served by two goroutines at a time.
RejailRequests == {Bodyless("GET", uA, HdrUA, "c1")}

\* Two cacheable requests with different keys.
PoolRequests == {Bodyless("GET", u, HdrUA, "c1") : u \in {uA, uB}}

\* Requests with a declared body, the same but for the bytes, and one without.
BodiedRequests ==
    {Request(m, uA, HdrUA, "c1", 1, <<>>, Stream(<<b>>, <<>>, "nil"))
     : m \in {"GET", "POST"}, b \in Bytes}
    \cup {Bodyless("POST", uA, HdrUA, "c1")}

\* CreateConfig(): the default configuration, with the inspector URL given.
CreateConfig ==
    [ModSecurityUrl |-> "http://waf:80",
     MaxBodySize |-> MaxBodySize,
     CacheEnabled |-> boolPtr(TRUE),
     CacheConditions |-> [Methods |-> <<"GET">>, NoBody |-> boolPtr(TRUE)],
     CacheKey |-> [IncludeHeaders |-> boolPtr(TRUE), Headers |-> <<"User-Agent">>,
                   IncludeHost |-> boolPtr(TRUE), IncludeRemoteAddress |-> boolPtr(TRUE)]]

NoJail ==
    [enabled |-> FALSE, thresholdCount |-> 0, thresholdPeriod |-> 0, jailDuration |-> 0,
     offenses |-> [c \in Clients |-> <<>>], release |-> [c \in Clients |-> <<>>]]

Jail(count, period, duration) ==
    [NoJail EXCEPT !.enabled = TRUE, !.thresholdCount = count,
                   !.thresholdPeriod = period, !.jailDuration = duration]

\* The runs: a configuration, a jail, the requests sent, how many of them,
\* how many at a time, how long the clock runs, and the statuses the
\* inspector answers with.
Scenarios ==
    {[name |-> "construct", config |-> [CreateConfig EXCEPT !.ModSecurityUrl = ""],
      jail |-> NoJail, budget |-> 0, procs |-> 1, ticks |-> 0, statuses |-> {200}],
     [name |-> "body", config |-> [CreateConfig EXCEPT !.CacheEnabled = NilPtr],
      jail |-> NoJail, budget |-> 1, procs |-> 1, ticks |-> 0, statuses |-> {200, 403}],
     [name |-> "cache", config |-> CreateConfig,
      jail |-> NoJail, budget |-> MaxRequests, procs |-> 1, ticks |-> MaxTime,
      statuses |-> {200, 403}],
     [name |-> "headers",
      config |-> [CreateConfig EXCEPT !.CacheConditions = [Methods |-> <<>>, NoBody |-> NilPtr],
                                      !.CacheKey.Headers = <<"User-Agent", "Accept">>,
                                      !.CacheKey.IncludeRemoteAddress = boolPtr(FALSE)],
      jail |-> NoJail, budget |-> MaxRequests, procs |-> 1, ticks |-> MaxTime,
      statuses |-> {200, 400}],
     [name |-> "jail", config |-> CreateConfig,
      jail |-> Jail(2, 1, 2), budget |-> MaxRequests + 1, procs |-> 1, ticks |-> MaxTime + 1,
      statuses |-> {200, 403, 404}],
     [name |-> "pool", config |-> CreateConfig,
      jail |-> NoJail, budget |-> MaxRequests + 2, procs |-> 2, ticks |-> 0,
      statuses |-> {200, 403}],
     [name |-> "bodied",
      config |-> [CreateConfig EXCEPT !.CacheConditions = [Methods |-> <<"POST">>,
                                                           NoBody |-> boolPtr(FALSE)]],
      jail |-> NoJail, budget |-> MaxRequests, procs |-> 1, ticks |-> 0,
      statuses |-> {200, 403}],
     [name |-> "rejail", config |-> [CreateConfig EXCEPT !.CacheEnabled = NilPtr],
      jail |-> Jail(1, 1, 2), budget |-> MaxRequests, procs |-> 2, ticks |-> 1,
      statuses |-> {200, 403}]}

Requests(name) ==
    CASE name = "body" -> BodyRequests
      [] name = "cache" -> CacheRequests
      [] name = "headers" -> HeaderRequests
      [] name = "jail" -> JailRequests
      [] name = "pool" -> PoolRequests
      [] name = "bodied" -> BodiedRequests
      [] name = "rejail" -> RejailRequests
      [] OTHER -> {}

Procs == {1, 2}

ObjIds == {"r1", "r2"}

\* cache.New(5*time.Minute, 10*time.Minute): the time to live of an entry, in
\* ticks of the model's clock (one tick is two and a half minutes).
DefaultExpiration == 2

---------------------------------------------------------------------------
(* The state of one handler: where the goroutine running ServeHTTP is, its *)
(* locals, and (ghost) what it did.                                        *)

IdleHandler ==
    [pc |-> "idle",
     req |-> <<>>,          \* <<the request>>
     t0 |-> 0,              \* ghost: when ServeHTTP was entered
     body |-> <<>>,         \* <<req.Body>> as the body capture left it
     copy |-> <<>>,         \* reqBodyCopy: <<>> for nil, <<bytes>>
     key |-> <<>>,          \* <<cacheKey>> once GetCachedResponse derived it
     resp |-> <<>>,         \* <<resp>>: [kind |-> "live", ...] or [kind |-> "pooled", obj |-> id]
     status |-> <<>>,       \* <<resp.StatusCode>> as read by ServeHTTP
     rw |-> <<>>,           \* what was written to the client
     calls |-> 0,           \* ghost: calls of the inspector
     nexts |-> <<>>,        \* ghost: the request bodies a.next.ServeHTTP was called with
     sent |-> <<>>,         \* ghost: the request bodies sent to the inspector
     verdict |-> <<>>,      \* ghost: <<status>> of the live or cached verdict obtained
     hit |-> FALSE,         \* ghost: the verdict came from the cache
     applicable |-> FALSE,  \* ghost: the cache was consulted
     prior |-> {},          \* ghost: cached codes of requests with the same key components
     failed |-> FALSE,      \* ghost: the inspector call failed
     tripped |-> FALSE,     \* ghost: at entry the client's denials had reached the threshold
                            \* and the jail duration had not elapsed since
     due |-> FALSE]         \* ghost: at entry they had, and the jail duration had elapsed

InFlight == Cardinality({p \in Procs : h[p].pc # "idle"})

Handler == mw.handler[1]

Items == cache[1]

\* a.cache.Get(key) without the look at the expiration.
Found_NoExpiry(key) == key \in DOMAIN Items

\* Whether a.cache.Get(key) finds the key: present and not expired.
Found(key) == key \in DOMAIN Items /\ ~(now > Items[key].exp)

Init ==
    /\ \E sc \in Scenarios :
         /\ scenario = [name |-> sc.name, budget |-> sc.budget, procs |-> sc.procs,
                        ticks |-> sc.ticks, statuses |-> sc.statuses]
         /\ config = sc.config
         /\ jail = sc.jail
    /\ mw = [built |-> FALSE, err |-> "", handler |-> <<>>]
    /\ cache = <<>>
    /\ cacheSrc = EmptyMap
    /\ heap = EmptyMap
    /\ now = 0
    /\ h = [p \in Procs |-> IdleHandler]
    /\ started = 0
    /\ denials = [c \in Clients |-> <<>>]
    /\ kin = <<>>
    /\ kout = <<>>

\* The handler New returns for the configuration.
NewHandler(cfg) ==
    [modSecurityUrl |-> cfg.ModSecurityUrl,
     maxBodySize |-> cfg.MaxBodySize,
     cacheEnabled |-> cfg.CacheEnabled # NilPtr /\ cfg.CacheEnabled[1],
     cacheConditions |-> cfg.CacheConditions,
     cacheKey |-> cfg.CacheKey]

\* New without the check of the URL.
NewResult_NoCheck(cfg) ==
    [built |-> TRUE, err |-> "", handler |-> <<NewHandler(cfg)>>, cache |-> <<EmptyMap>>]

\* New(ctx, next, config, name): (handler, error)
NewResult(cfg) ==
    IF Len(cfg.ModSecurityUrl) = 0
    THEN [built |-> TRUE, err |-> "modSecurityUrl cannot be empty", handler |-> <<>>,
          cache |-> <<>>]
    ELSE [built |-> TRUE, err |-> "", handler |-> <<NewHandler(cfg)>>, cache |-> <<EmptyMap>>]

New ==
    /\ ~mw.built
    /\ mw' = [built |-> TRUE, err |-> NewResult(config).err, handler |-> NewResult(config).handler]
    /\ cache' = NewResult(config).cache
    /\ UNCHANGED <<config, cacheSrc, jail, heap, now, h, started, denials, scenario, kin, kout>>

\* A request can be handed to the handler.
CanServe(p) ==
    /\ mw.built /\ mw.handler # <<>>
    /\ h[p].pc = "idle" /\ \A q \in Procs : q < p => h[q].pc # "idle"
    /\ started < scenario.budget
    /\ InFlight < scenario.procs

\* The times at which the client's denials (since its record was last
\* purged) reached the threshold: the last of thresholdCount denials that
\* lie within thresholdPeriod (ghost).
TripTimes(client) ==
    LET d == denials[client]
        n == jail.thresholdCount
    IN  {d[i] : i \in {j \in n..Len(d) : d[j] - d[j - n + 1] <= jail.thresholdPeriod}}

Tripped(client) ==
    jail.enabled /\ \E t \in TripTimes(client) : now < t + jail.jailDuration

Due(client) == jail.enabled /\ TripTimes(client) # {} /\ ~Tripped(client)

Entered(req) ==
    [IdleHandler EXCEPT !.req = <<req>>, !.t0 = now,
                        !.tripped = Tripped(req.RemoteAddr), !.due = Due(req.RemoteAddr)]

\* ServeHTTP without the websocket test: the upgrade request is inspected.
ServeHTTP_Websocket_Inspected(p) ==
    /\ CanServe(p)
    /\ \E req \in Requests(scenario.name) :
         /\ isWebsocket(req)
         /\ h' = [h EXCEPT ![p] = [Entered(req) EXCEPT !.pc = "inspect",
                                                        !.body = <<req.Body>>]]
    /\ started' = started + 1
    /\ UNCHANGED <<config, mw, cache, cacheSrc, jail, heap, now, denials, scenario, kin, kout>>

\* ServeHTTP for a websocket request: straight to a.next.
ServeHTTP_Websocket(p) ==
    /\ CanServe(p)
    /\ \E req \in Requests(scenario.name) :
         /\ isWebsocket(req)
         /\ h' = [h EXCEPT ![p] = [Entered(req) EXCEPT !.pc = "done",
                                                        !.body = <<req.Body>>,
                                                        !.rw = <<ServiceResponse>>,
                                                        !.nexts = <<req.Body.data>>]]
    /\ started' = started + 1
    /\ UNCHANGED <<config, mw, cache, cacheSrc, jail, heap, now, denials, scenario, kin, kout>>

\* The response a jailed client gets.
JailedResponse == HttpError(StatusText(429), 429)

\* The jailed request answered after its body was read to the end.
ServeHTTP_Jailed_Drained(p) ==
    /\ CanServe(p)
    /\ \E req \in Requests(scenario.name) :
         /\ ~isWebsocket(req)
         /\ jail.enabled /\ isJailed(jail, req.RemoteAddr, now)
         /\ h' = [h EXCEPT ![p] = [Entered(req) EXCEPT !.pc = "done",
                                                        !.body = <<NopCloserBuffer(<<>>)>>,
                                                        !.rw = <<JailedResponse>>]]
    /\ started' = started + 1
    /\ UNCHANGED <<config, mw, cache, cacheSrc, jail, heap, now, denials, scenario, kin, kout>>

\* ServeHTTP for a request of a client in jail: too many requests.
ServeHTTP_Jailed(p) ==
    /\ CanServe(p)
    /\ \E req \in Requests(scenario.name) :
         /\ ~isWebsocket(req)
         /\ jail.enabled /\ isJailed(jail, req.RemoteAddr, now)
         /\ h' = [h EXCEPT ![p] = [Entered(req) EXCEPT !.pc = "done",
                                                        !.body = <<req.Body>>,
                                                        !.rw = <<JailedResponse>>]]
    /\ started' = started + 1
    /\ UNCHANGED <<config, mw, cache, cacheSrc, jail, heap, now, denials, scenario, kin, kout>>

IsChunked(req) == req.TransferEncoding # <<>> /\ req.TransferEncoding[1] = "chunked"

\* The body capture of ServeHTTP: the handler state it leaves.
BodyCapture(a, req) ==
    LET hb == requestHasBody(req)
        ms == HandleRequestBodyMaxSize(a.maxBodySize, hb.body)
        cp == IF IsChunked(req) THEN copyRequestBodyChunked(ms.body)
              ELSE copyRequestBody(ms.body)
        internal == <<HttpError("Internal Server Error", 500)>>
    IN  IF hb.err
        THEN [Entered(req) EXCEPT !.pc = "done", !.body = <<hb.body>>, !.rw = internal]
        ELSE IF ~hb.hasBody
        THEN [Entered(req) EXCEPT !.pc = "cache", !.body = <<hb.body>>]
        ELSE IF ms.err
        THEN [Entered(req) EXCEPT !.pc = "done", !.body = <<ms.body>>, !.rw = ms.rw]
        ELSE IF cp.err
        THEN [Entered(req) EXCEPT !.pc = "done", !.body = <<cp.body>>, !.rw = internal]
        ELSE [Entered(req) EXCEPT !.pc = "cache", !.body = <<cp.body>>, !.copy = <<cp.copy>>]

\* ServeHTTP up to the call of HandleCacheAndForwardRequest.
ServeHTTP_Begin(p) ==
    /\ CanServe(p)
    /\ \E req \in Requests(scenario.name) :
         /\ ~isWebsocket(req)
         /\ ~(jail.enabled /\ isJailed(jail, req.RemoteAddr, now))
         /\ LET purged == jail.enabled /\ AfterJailCheck(jail, req.RemoteAddr, now) # jail
            IN  /\ jail' = IF jail.enabled THEN AfterJailCheck(jail, req.RemoteAddr, now)
                           ELSE jail
                /\ denials' = IF purged THEN [denials EXCEPT ![req.RemoteAddr] = <<>>]
                              ELSE denials
                /\ h' = [h EXCEPT ![p] = BodyCapture(Handler, req)]
    /\ started' = started + 1
    /\ UNCHANGED <<config, mw, cache, cacheSrc, heap, now, scenario, kin, kout>>

\* cacheResponsePool.Get(): an object put back earlier, or a new one.
PoolGet == DOMAIN heap \cup (IF ObjIds \ DOMAIN heap = {} THEN {}
                             ELSE {CHOOSE o \in ObjIds \ DOMAIN heap : TRUE})

\* newPooledCacheResponse(statusCode, body) on object o, then the deferred
\* putResponse(resp): the object as it lies in the pool when
\* GetCachedResponse has returned it to its caller.
PooledAndPut(o, statusCode, body) ==
    [x \in DOMAIN heap \cup {o} |->
        IF x = o THEN [StatusCode |-> statusCode, Body |-> body, Header |-> EmptyMap,
                       inPool |-> TRUE]
        ELSE heap[x]]

\* The cached codes of unexpired entries stored for the same key components (ghost).
PriorCodes(comps) ==
    {Items[k].code : k \in {x \in DOMAIN Items : cacheSrc[x].comps = comps /\ ~(now > Items[x].exp)}}

\* HandleCacheAndForwardRequest(reqCopy), and GetCachedResponse up to the
\* cache lookup and the hit.
HandleCacheAndForwardRequest(p) ==
    /\ h[p].pc = "cache"
    /\ LET req == h[p].req[1]
           a == Handler
       IN  IF ~a.cacheEnabled \/ ~Check(a.cacheConditions, req)
           THEN /\ h' = [h EXCEPT ![p].pc = "inspect"]
                /\ heap' = heap
           ELSE \E ord \in Perms(DOMAIN req.Header) :
                  LET cacheKey == generateCacheKey(req, a.cacheKey, ord, now)
                      prior == PriorCodes(KeyComponents(req, a.cacheKey, now))
                      statusCode == Items[cacheKey].code % 1000
                  IN  IF Found(cacheKey)
                      THEN \E o \in PoolGet :
                             /\ heap' = PooledAndPut(o, statusCode, StatusText(statusCode))
                             /\ h' = [h EXCEPT ![p].pc = "decide",
                                               ![p].key = <<cacheKey>>,
                                               ![p].applicable = TRUE,
                                               ![p].prior = prior,
                                               ![p].hit = TRUE,
                                               ![p].verdict = <<statusCode>>,
                                               ![p].resp = <<[kind |-> "pooled", obj |-> o]>>]
                      ELSE /\ heap' = heap
                           /\ h' = [h EXCEPT ![p].pc = "inspect",
                                             ![p].key = <<cacheKey>>,
                                             ![p].applicable = TRUE,
                                             ![p].prior = prior]
    /\ UNCHANGED <<config, mw, cache, cacheSrc, jail, now, started, denials, scenario, kin, kout>>

\* The body the inspector is sent: reqCopy.Body.
SentBody(hp) == IF hp.copy # <<>> THEN hp.copy[1] ELSE hp.body[1].data

\* req.Body after the inspector call: read, when reqCopy shares it.
BodyAfterSend(hp) == IF hp.copy # <<>> THEN hp.body ELSE <<NopCloserBuffer(<<>>)>>

\* a.cache.SetDefault writing only the last two digits of the code.
SetDefault_Partial(items, key, code) ==
    [k \in DOMAIN items \cup {key} |->
        IF k = key THEN [code |-> code % 100, exp |-> now + DefaultExpiration] ELSE items[k]]

\* a.cache.SetDefault(cacheKey, cachedCode)
SetDefault(items, key, code) ==
    [k \in DOMAIN items \cup {key} |->
        IF k = key THEN [code |-> code, exp |-> now + DefaultExpiration] ELSE items[k]]

\* PrepareForwardedRequest answered by the inspector, and the store of
\* GetCachedResponse after a miss.
InspectorAnswers(p) ==
    /\ h[p].pc = "inspect"
    /\ \E code \in scenario.statuses :
         /\ h' = [h EXCEPT ![p].pc = "decide",
                           ![p].calls = @ + 1,
                           ![p].sent = Append(@, SentBody(h[p])),
                           ![p].body = BodyAfterSend(h[p]),
                           ![p].verdict = <<code>>,
                           ![p].resp = <<[kind |-> "live"] @@ InspectorResponse(code)>>]
         /\ IF h[p].key # <<>>
            THEN /\ cache' = <<SetDefault(Items, h[p].key[1], code % 1000)>>
                 /\ cacheSrc' = [k \in DOMAIN cacheSrc \cup {h[p].key[1]} |->
                                    IF k = h[p].key[1]
                                    THEN [comps |-> KeyComponents(h[p].req[1],
                                                                  Handler.cacheKey, now),
                                          body |-> SentBody(h[p])]
                                    ELSE cacheSrc[k]]
            ELSE UNCHANGED <<cache, cacheSrc>>
    /\ UNCHANGED <<config, mw, jail, heap, now, started, denials, scenario, kin, kout>>

\* The failed call stored as a verdict.
AfterInspectorError_Stored(hp, items) ==
    [handler |-> [hp EXCEPT !.pc = "done",
                            !.calls = @ + 1,
                            !.sent = Append(@, SentBody(hp)),
                            !.body = BodyAfterSend(hp),
                            !.failed = TRUE,
                            !.rw = <<HttpError("Internal Server Error", 500)>>],
     items |-> IF hp.key # <<>> THEN SetDefault(items, hp.key[1], 500) ELSE items]

\* What the handler is left with when the inspector call fails.
AfterInspectorError(hp, items) ==
    [handler |-> [hp EXCEPT !.pc = "done",
                            !.calls = @ + 1,
                            !.sent = Append(@, SentBody(hp)),
                            !.body = BodyAfterSend(hp),
                            !.failed = TRUE,
                            !.rw = <<HttpError("Internal Server Error", 500)>>],
     items |-> items]

\* PrepareForwardedRequest fails (timeout, connection failure): the error
\* goes up to ServeHTTP, which answers 500.
InspectorFails(p) ==
    /\ h[p].pc = "inspect"
    /\ h' = [h EXCEPT ![p] = AfterInspectorError(h[p], Items).handler]
    /\ cache' = <<AfterInspectorError(h[p], Items).items>>
    /\ UNCHANGED <<config, mw, cacheSrc, jail, heap, now, started, denials, scenario, kin, kout>>

\* The response object the handler holds.
RespOf(hp) == IF hp.resp[1].kind = "live" THEN hp.resp[1] ELSE heap[hp.resp[1].obj]

\* Whether ServeHTTP denies on the status it reads.
Denies(status) == status >= 400

\* Every denial counted as an offense.
IsOffense_AnyDenial(status) == jail.enabled /\ status >= 400

\* Whether the denial is an offense the jail records.
IsOffense(status) == jail.enabled /\ status = 403

\* ServeHTTP after HandleCacheAndForwardRequest returned a response: the
\* status decides between forwardResponse and a.next.
ServeHTTP_Decide(p) ==
    /\ h[p].pc = "decide"
    /\ LET status == RespOf(h[p]).StatusCode
           client == h[p].req[1].RemoteAddr
       IN  IF Denies(status)
           THEN /\ jail' = IF IsOffense(status) THEN recordOffense(jail, client, now) ELSE jail
                /\ denials' = IF IsOffense(status) THEN [denials EXCEPT ![client] = Append(@, now)]
                              ELSE denials
                /\ h' = [h EXCEPT ![p].status = <<status>>,
                                  ![p].pc = IF h[p].resp[1].kind = "live" THEN "done" ELSE "forward",
                                  ![p].rw = IF h[p].resp[1].kind = "live"
                                            THEN <<forwardResponse(h[p].resp[1])>> ELSE @]
           ELSE /\ UNCHANGED <<jail, denials>>
                /\ h' = [h EXCEPT ![p].status = <<status>>,
                                  ![p].pc = "done",
                                  ![p].rw = <<ServiceResponse>>,
                                  ![p].nexts = Append(@, h[p].body[1].data)]
    /\ UNCHANGED <<config, mw, cache, cacheSrc, heap, now, started, scenario, kin, kout>>

\* forwardResponse(resp, rw) on a response object taken from the pool.
ServeHTTP_Forward(p) ==
    /\ h[p].pc = "forward"
    /\ h' = [h EXCEPT ![p].pc = "done", ![p].rw = <<forwardResponse(RespOf(h[p]))>>]
    /\ UNCHANGED <<config, mw, cache, cacheSrc, jail, heap, now, started, denials, scenario, kin, kout>>

\* ServeHTTP returns; the goroutine can take the next request.
ServeHTTP_Return(p) ==
    /\ h[p].pc = "done"
    /\ h' = [h EXCEPT ![p] = IdleHandler]
    /\ UNCHANGED <<config, mw, cache, cacheSrc, jail, heap, now, started, denials, scenario, kin, kout>>

\* Time passes.
Tick ==
    /\ now < scenario.ticks
    /\ now' = now + 1
    /\ UNCHANGED <<config, mw, cache, cacheSrc, jail, heap, h, started, denials, scenario, kin, kout>>

\* The janitor of the cache deletes the expired entries.
Janitor ==
    /\ cache # <<>>
    /\ \E k \in DOMAIN Items : now > Items[k].exp
    /\ cache' = <<[k \in {x \in DOMAIN Items : ~(now > Items[x].exp)} |-> Items[k]]>>
    /\ cacheSrc' = [k \in {x \in DOMAIN Items : ~(now > Items[x].exp)} |-> cacheSrc[k]]
    /\ UNCHANGED <<config, mw, jail, heap, now, h, started, denials, scenario, kin, kout>>

Next ==
    \/ New
    \/ \E p \in Procs : ServeHTTP_Websocket(p)
    \/ \E p \in Procs : ServeHTTP_Jailed(p)
    \/ \E p \in Procs : ServeHTTP_Begin(p)
    \/ \E p \in Procs : HandleCacheAndForwardRequest(p)
    \/ \E p \in Procs : InspectorAnswers(p)
    \/ \E p \in Procs : InspectorFails(p)
    \/ \E p \in Procs : ServeHTTP_Decide(p)
    \/ \E p \in Procs : ServeHTTP_Forward(p)
    \/ \E p \in Procs : ServeHTTP_Return(p)
    \/ Tick
    \/ Janitor

Spec == Init /\ [][Next]_vars

---------------------------------------------------------------------------
(* Key derivation on its own: two requests and the options are drawn, and  *)
(* generateCacheKey is applied to each, every call traversing the header   *)
(* map in some order.                                                      *)

HdrTrace(hd, v) == hd @@ [k \in {"X-Trace"} |-> <<v>>]

KeyHeaders ==
    {HdrUA, HdrUAAccept, HdrTrace(HdrUA, "1"), HdrTrace(HdrUA, "2"),
     HdrTrace(HdrUAAccept, "1"), HdrTrace(HdrUAAccept, "2")}

KeyRequests == {Bodyless("GET", u, hd, "c1") : u \in {uA, uATrack, uB}, hd \in KeyHeaders}

KeyOptions ==
    {[IncludeHeaders |-> ih, Headers |-> hs, IncludeHost |-> boolPtr(TRUE),
      IncludeRemoteAddress |-> boolPtr(TRUE)]
     : ih \in {NilPtr, boolPtr(FALSE), boolPtr(TRUE)},
       hs \in {<<"User-Agent">>, <<"User-Agent", "Accept">>}}

KeyInit ==
    /\ kin \in {<<[a |-> ra, b |-> rb, options |-> o]>>
                : ra \in KeyRequests, rb \in KeyRequests, o \in KeyOptions}
    /\ kout = <<>>
    /\ scenario = [name |-> "keys", budget |-> 0, procs |-> 1, ticks |-> 0, statuses |-> {200}]
    /\ config = CreateConfig
    /\ jail = NoJail
    /\ mw = [built |-> FALSE, err |-> "", handler |-> <<>>]
    /\ cache = <<>>
    /\ cacheSrc = EmptyMap
    /\ heap = EmptyMap
    /\ now = 0
    /\ h = [p \in Procs |-> IdleHandler]
    /\ started = 0
    /\ denials = [c \in Clients |-> <<>>]

\* generateCacheKey(a, options) and generateCacheKey(b, options).
DeriveKeys ==
    /\ kin # <<>> /\ kout = <<>>
    /\ \E oa \in Perms(DOMAIN kin[1].a.Header), ob \in Perms(DOMAIN kin[1].b.Header) :
         kout' = <<generateCacheKey(kin[1].a, kin[1].options, oa, now),
                   generateCacheKey(kin[1].b, kin[1].options, ob, now)>>
    /\ UNCHANGED <<config, mw, cache, cacheSrc, jail, heap, now, h, started, denials,
                   scenario, kin>>

KeyNext == DeriveKeys

SpecKey == KeyInit /\ [][KeyNext]_vars

---------------------------------------------------------------------------
(* The properties. *)

NonWebsocket(p) == h[p].pc # "idle" /\ ~isWebsocket(h[p].req[1])

\* C1: for every non-websocket request whose verdict, live from the
\* inspector or taken from the cache, has a status below 400, ServeHTTP
\* invokes the pass-through exactly once, writes nothing of its own, and the
\* client sees the pass-through's response.
C1_AllowedPassesThroughOnce ==
    \A p \in Procs :
        (NonWebsocket(p) /\ h[p].pc = "done" /\ h[p].verdict # <<>> /\ h[p].verdict[1] < 400)
        => /\ Len(h[p].nexts) = 1
           /\ h[p].rw = <<ServiceResponse>>

C3_WebsocketStraightThrough ==
    [][\A p \in Procs :
        (h[p].pc = "idle" /\ h'[p].pc # "idle" /\ isWebsocket(h'[p].req[1]))
        => /\ h'[p].pc = "done"
           /\ h'[p].calls = 0 /\ h'[p].sent = <<>>
           /\ h'[p].key = <<>> /\ ~h'[p].applicable
           /\ h'[p].body = <<h'[p].req[1].Body>>
           /\ h'[p].nexts = <<h'[p].req[1].Body.data>>
           /\ h'[p].rw = <<ServiceResponse>>
           /\ cache' = cache /\ cacheSrc' = cacheSrc /\ heap' = heap /\ jail' = jail]_vars

\* A websocket request of a client in jail, with the cache enabled and
\* holding an entry, was passed through.
C3_Witness ==
    \E p \in Procs :
        /\ h[p].pc = "done" /\ isWebsocket(h[p].req[1])
        /\ h[p].tripped /\ Handler.cacheEnabled /\ DOMAIN Items # {}
        /\ Len(h[p].req[1].Body.data) > 0

\* Every byte of the body can be read, and Close reports nothing but the
\* end of the stream.
Readable(req) == req.Body.errAt = <<>> /\ req.Body.closeErr # "other"

\* C4: a request whose body has maxBodySize bytes or fewer passes the body
\* capture and is forwarded to the inspector; a request whose body has
\* maxBodySize + 1 bytes or more is answered 413 and reaches neither the
\* inspector nor the pass-through.
C4_BodySizeBoundary ==
    \A p \in Procs :
        (NonWebsocket(p) /\ h[p].pc = "done" /\ Readable(h[p].req[1]))
        => IF Len(h[p].req[1].Body.data) <= Handler.maxBodySize
           THEN h[p].calls = 1
           ELSE /\ h[p].rw = <<HttpError("", 413)>>
                /\ h[p].calls = 0
                /\ h[p].nexts = <<>>

\* C5: when caching applies to a request and an unexpired entry was stored
\* by an earlier request with the same method, normalized path and
\* configured key components, the request is decided with the stored status
\* and the inspector is not called for it.
C5_CacheIdempotence ==
    \A p \in Procs :
        (h[p].pc = "done" /\ h[p].applicable /\ h[p].prior # {})
        => /\ h[p].calls = 0
           /\ h[p].status # <<>>
           /\ h[p].status[1] \in h[p].prior

\* The headers of the request that the options put into the key.
InKey(req, options) ==
    [k \in {x \in DOMAIN req.Header : IsTrue(options.IncludeHeaders) /\ contains(options.Headers, x)}
        |-> req.Header[k]]

\* The two requests differ only in headers the options leave out of the key.
DifferOnlyInExcludedHeader(a, b, options) ==
    /\ a.Header # b.Header
    /\ InKey(a, options) = InKey(b, options)
    /\ [a EXCEPT !.Header = EmptyMap] = [b EXCEPT !.Header = EmptyMap]

\* C6: two requests that differ only in a header excluded from the key get
\* the same cache key; two requests that differ in the normalized path get
\* different cache keys.
C6_KeySensitivity ==
    kout # <<>>
    => /\ DifferOnlyInExcludedHeader(kin[1].a, kin[1].b, kin[1].options) => kout[1] = kout[2]
       /\ removeTrackingParams(kin[1].a.URI) # removeTrackingParams(kin[1].b.URI)
          => kout[1] # kout[2]

\* The answer to a request of a client in jail: 429, nothing else done.
AnsweredJailed(p) ==
    /\ h[p].pc = "done"
    /\ h[p].rw = <<JailedResponse>>
    /\ h[p].calls = 0 /\ h[p].nexts = <<>> /\ h[p].key = <<>>

C9_InspectorFailure ==
    [][\A p \in Procs :
        (h[p].pc = "inspect" /\ h'[p].failed)
        => /\ h'[p].pc = "done"
           /\ h'[p].rw = <<HttpError("Internal Server Error", 500)>>
           /\ h'[p].nexts = <<>>
           /\ h'[p].calls = 1
           /\ cache' = cache]_vars

\* The inspector call of a cacheable request failed.
C9_Witness ==
    \E p \in Procs : h[p].pc = "done" /\ h[p].failed /\ h[p].key # <<>>

\* C10: New with an empty inspector URL returns an error and no handler;
\* with a non-empty URL it returns a handler whose cache is empty.
C10_Construction ==
    [][(~mw.built /\ mw'.built)
       => IF Len(config.ModSecurityUrl) = 0
          THEN mw'.err # "" /\ mw'.handler = <<>> /\ cache' = <<>>
          ELSE mw'.err = "" /\ mw'.handler # <<>> /\ cache' = <<EmptyMap>>]_vars

C10_Witness == mw.built /\ Len(config.ModSecurityUrl) = 0 /\ mw.handler = <<>>

\* The request's body stream delivers all its bytes, they fit the limit, and
\* the body capture accepted them.
Captured(p) ==
    /\ NonWebsocket(p)
    /\ Readable(h[p].req[1])
    /\ Len(h[p].req[1].Body.data) <= Handler.maxBodySize
    /\ h[p].copy # <<>>

\* C11: after the body capture of an accepted request with a body, chunked
\* or not, the captured bytes are the original body, and the inspector call
\* and the pass-through each read the complete original body.
C11_BodyReplayable ==
    \A p \in Procs :
        Captured(p)
        => /\ h[p].copy[1] = h[p].req[1].Body.data
           /\ \A i \in 1..Len(h[p].sent) : h[p].sent[i] = h[p].req[1].Body.data
           /\ \A i \in 1..Len(h[p].nexts) : h[p].nexts[i] = h[p].req[1].Body.data

\* A read of the request body fails with an I/O error while the body
\* capture reads it (the capture reads at most maxBodySize + 1 bytes).
ReadFails(p) ==
    /\ NonWebsocket(p)
    /\ h[p].req[1].Body.errAt # <<>>
    /\ h[p].req[1].Body.errAt[1] <= Handler.maxBodySize

\* C12: when reading the request body fails with an I/O error during the
\* capture, the client receives an error response and the request reaches
\* neither the inspector nor the pass-through.
C12_ReadErrorStops ==
    \A p \in Procs :
        (ReadFails(p) /\ h[p].pc = "done")
        => /\ Len(h[p].rw) = 1 /\ h[p].rw[1].by = "middleware" /\ h[p].rw[1].code >= 500
           /\ h[p].calls = 0
           /\ h[p].nexts = <<>>

\* C13: whenever HandleRequestBodyMaxSize reports success, whatever the
\* reads and Close returned, the captured body holds at most maxBodySize
\* bytes: no body of more bytes goes to the inspector or the pass-through.
C13_CaptureWithinLimit ==
    \A p \in Procs :
        NonWebsocket(p)
        => /\ h[p].copy # <<>> => Len(h[p].copy[1]) <= Handler.maxBodySize
           /\ \A i \in 1..Len(h[p].sent) : Len(h[p].sent[i]) <= Handler.maxBodySize
           /\ \A i \in 1..Len(h[p].nexts) : Len(h[p].nexts[i]) <= Handler.maxBodySize

---------------------------------------------------------------------------
(* Body detection on its own: a request is drawn and requestHasBody is     *)
(* applied to it.                                                          *)

\* The variables the function specifications do not use.
Unused ==
    /\ scenario = [name |-> "none", budget |-> 0, procs |-> 1, ticks |-> 0, statuses |-> {200}]
    /\ config = CreateConfig
    /\ jail = NoJail
    /\ mw = [built |-> FALSE, err |-> "", handler |-> <<>>]
    /\ cache = <<>>
    /\ cacheSrc = EmptyMap
    /\ heap = EmptyMap
    /\ now = 0
    /\ h = [p \in Procs |-> IdleHandler]
    /\ started = 0
    /\ denials = [c \in Clients |-> <<>>]

\* Bodies as long as the peek reads, and one byte longer.
LongBodies == {[i \in 1..n |-> "a"] : n \in {maxPeekSize, maxPeekSize + 1}}

PeekRequests ==
    BodyRequests
    \cup {Request("POST", uA, HdrUA, "c1", cl, <<>>, Stream(d, <<>>, "nil"))
          : cl \in {0, -1}, d \in LongBodies}

PeekInit ==
    /\ kin \in {<<req>> : req \in PeekRequests}
    /\ kout = <<>>
    /\ Unused

\* hasBody, err := requestHasBody(req)
Peek ==
    /\ kin # <<>> /\ kout = <<>>
    /\ kout' = <<requestHasBody(kin[1])>>
    /\ UNCHANGED <<config, mw, cache, cacheSrc, jail, heap, now, h, started, denials,
                   scenario, kin>>

PeekNext == Peek

SpecPeek == PeekInit /\ [][PeekNext]_vars

\* C14: with a declared content length of zero, requestHasBody reads at
\* most 4 KiB and, when no read fails, reports a body exactly when it read
\* at least one byte and leaves a body stream that yields the original
\* bytes; with a non-zero declared length it reports a body and reads
\* nothing.
C14_PeekPreservesStream ==
    kout # <<>>
    => LET req == kin[1]
           r == kout[1]
       IN  IF req.ContentLength # 0
           THEN r.hasBody /\ ~r.err /\ r.read = 0 /\ r.body = req.Body
           ELSE /\ r.read <= maxPeekSize
                /\ ~r.err => /\ r.hasBody <=> r.read > 0
                             /\ r.body.data = req.Body.data
                             /\ r.body.errAt = req.Body.errAt

\* A body longer than the peek, declared with length zero, was peeked.
C14_Witness ==
    /\ kout # <<>>
    /\ kin[1].ContentLength = 0
    /\ Len(kin[1].Body.data) > maxPeekSize
    /\ kout[1].hasBody /\ kout[1].read = maxPeekSize

\* The cache is enabled, the method is in the allow-list (an empty list
\* admits every method) and the no-body condition matches the declared length.
Applies(a, req) ==
    /\ a.cacheEnabled
    /\ a.cacheConditions.Methods = <<>> \/ req.Method \in Range(a.cacheConditions.Methods)
    /\ \/ a.cacheConditions.NoBody = NilPtr
       \/ a.cacheConditions.NoBody = boolPtr(TRUE) /\ req.ContentLength = 0
       \/ a.cacheConditions.NoBody = boolPtr(FALSE) /\ req.ContentLength # 0

\* C15: a request looks up or stores in the cache only if the cache is
\* enabled, its method is allowed and the no-body condition matches; the
\* handling of every other request leaves the cache unchanged and calls the
\* inspector directly.
C15_CacheApplicability ==
    /\ [](\A p \in Procs :
            NonWebsocket(p)
            => /\ h[p].applicable => Applies(Handler, h[p].req[1])
               /\ ~Applies(Handler, h[p].req[1])
                  => /\ h[p].key = <<>> /\ ~h[p].hit
                     /\ (h[p].pc = "done" /\ h[p].verdict # <<>>) => h[p].calls = 1)
    /\ [][\A p \in Procs :
            (h[p].pc # "idle" /\ h'[p] # h[p] /\ ~Applies(Handler, h[p].req[1]))
            => cache' = cache /\ heap' = heap]_vars

\* A request the conditions exclude was decided by the inspector while the
\* cache was enabled and held an entry.
C15_Witness ==
    \E p \in Procs :
        /\ h[p].pc = "done" /\ NonWebsocket(p)
        /\ Handler.cacheEnabled /\ ~Applies(Handler, h[p].req[1])
        /\ h[p].calls = 1 /\ h[p].verdict # <<>>
        /\ DOMAIN Items # {}

\* C16: when the no-body flag restricts caching to bodyless requests, no
\* request that carries a body is looked up or stored in the cache, also
\* when its declared content length is zero or unknown.
C16_BodiesNotCached ==
    \A p \in Procs :
        (/\ NonWebsocket(p)
         /\ Handler.cacheEnabled
         /\ Handler.cacheConditions.NoBody = boolPtr(TRUE)
         /\ Len(h[p].req[1].Body.data) > 0)
        => ~h[p].applicable /\ h[p].key = <<>> /\ ~h[p].hit

---------------------------------------------------------------------------
(* The blacklist on its own: a request, a whitelisted header with a        *)
(* blacklisted name and two values for it are drawn, and the keys          *)
(* generateCacheKey can return are derived for the request with each value *)
(* and without the header.                                                 *)

HeaderValues(name) ==
    CASE name = "Authorization" -> {"Bearer x", "Bearer y"}
      [] name = "Set-Cookie" -> {"s=1", "s=2"}
      [] name = "Cache-Control" -> {"no-store", "max-age=60,no-store", "public,max-age=60", "max-age=60"}
      [] name = "Pragma" -> {"no-cache", "x"}
      [] name = "Expires" -> {"date:1", "date:3", "never"}
      [] OTHER -> {}

WithHeader(req, name, v) == [req EXCEPT !.Header = @ @@ [k \in {name} |-> <<v>>]]

BlacklistInit ==
    /\ kin \in {<<[req |-> Bodyless("GET", uA, hd, "c1"), name |-> n, v1 |-> a, v2 |-> b, t |-> t,
                   options |-> [CreateConfig.CacheKey EXCEPT !.Headers = <<"User-Agent", "Accept", n>>]]>>
                : hd \in {HdrUA, HdrUAAccept}, n \in blacklistHeaders, t \in 0..MaxTime,
                  a \in UNION {HeaderValues(x) : x \in blacklistHeaders},
                  b \in UNION {HeaderValues(x) : x \in blacklistHeaders}}
    /\ kin[1].v1 \in HeaderValues(kin[1].name)
    /\ kin[1].v2 \in HeaderValues(kin[1].name)
    /\ kout = <<>>
    /\ Unused

\* Every key generateCacheKey(req, options) can return, for the request with
\* the header at either value and without it.
DeriveBlacklisted ==
    /\ kin # <<>> /\ kout = <<>>
    /\ LET i == kin[1]
       IN  kout' = <<[with1 |-> CacheKeys(WithHeader(i.req, i.name, i.v1), i.options, i.t),
                      with2 |-> CacheKeys(WithHeader(i.req, i.name, i.v2), i.options, i.t),
                      without |-> CacheKeys(i.req, i.options, i.t)]>>
    /\ UNCHANGED <<config, mw, cache, cacheSrc, jail, heap, now, h, started, denials,
                   scenario, kin>>

BlacklistNext == DeriveBlacklisted

SpecBlacklist == BlacklistInit /\ [][BlacklistNext]_vars

\* C17 as stated: a whitelisted header named Authorization, Set-Cookie,
\* Cache-Control, Pragma or Expires never contributes to the key, whatever
\* its value: the request gets the keys it gets without the header, and
\* two requests differing only in the value of the header get the same keys.
C17_BlacklistAbsolute ==
    kout # <<>> => kout[1].with1 = kout[1].without /\ kout[1].with1 = kout[1].with2

\* The values for which the code leaves the header out of the key.
LeftOut(name, v, t) ==
    \/ name \in {"Authorization", "Set-Cookie"}
    \/ name = "Cache-Control" /\ v \in {"no-store", "max-age=60,no-store"}
    \/ name = "Pragma" /\ v = "no-cache"
    \/ name = "Expires" /\ (v = "never" \/ (v = "date:1" /\ 1 < t) \/ (v = "date:3" /\ 3 < t))

\* C17, amended: a whitelisted Authorization or Set-Cookie header, a
\* Cache-Control header with a no-store directive, a Pragma header with the
\* value no-cache and an Expires header that is unparsable or in the past
\* never contribute to the key; two requests differing only in such values
\* of such a header get the same keys.
C17_BlacklistByValue ==
    kout # <<>>
    => LET i == kin[1]
       IN  /\ LeftOut(i.name, i.v1, i.t) => kout[1].with1 = kout[1].without
           /\ (LeftOut(i.name, i.v1, i.t) /\ LeftOut(i.name, i.v2, i.t))
              => kout[1].with1 = kout[1].with2

C17_Witness ==
    /\ kout # <<>>
    /\ kin[1].name = "Authorization" /\ kin[1].v1 # kin[1].v2
    /\ kin[1].req.Header = HdrUAAccept
    /\ Cardinality(kout[1].with1) = 2


\* C18: generateCacheKey is deterministic: two calls with the same request
\* and the same options return the same key, whatever the order in which
\* each call traverses the request's header map.
C18_KeyDeterministic ==
    (kout # <<>> /\ Len(kout) = 2 /\ kin[1].a = kin[1].b) => kout[1] = kout[2]


\* C19: cache expiry. Every entry expires DefaultExpiration after the moment
\* it is stored, and only the store after an inspector answer writes an
\* entry (a hit leaves the cache as it is); a lookup hits only an entry
\* whose time has not elapsed, so after it the lookup misses, the handler
\* goes on to the inspector, and the inspector's verdict is stored under the
\* key with a fresh expiration. Entries otherwise only disappear, and only
\* once expired.
C19_CacheExpiry ==
    [][cache # <<>> /\ cache' # <<>>
       => /\ \A k \in DOMAIN cache'[1] :
               (k \notin DOMAIN Items \/ cache'[1][k] # Items[k])
               => /\ cache'[1][k].exp = now + DefaultExpiration
                  /\ now' = now
                  /\ \E p \in Procs :
                       /\ h[p].pc = "inspect" /\ h[p].key = <<k>>
                       /\ h'[p].pc = "decide" /\ ~h'[p].hit
                       /\ h'[p].calls = h[p].calls + 1
                       /\ cache'[1][k].code = h'[p].verdict[1] % 1000
          /\ \A k \in DOMAIN Items : k \notin DOMAIN cache'[1] => now > Items[k].exp
          /\ \A p \in Procs :
               (h[p].pc = "cache" /\ h'[p].pc \in {"decide", "inspect"} /\ h'[p].key # <<>>)
               => LET k == h'[p].key[1]
                  IN  /\ cache' = cache
                      /\ h'[p].pc = "decide"
                         <=> (k \in DOMAIN Items /\ ~(now > Items[k].exp))
                      /\ h'[p].pc = "decide"
                         => h'[p].hit /\ h'[p].verdict = <<Items[k].code>>
          /\ \A p \in Procs :
               (h[p].pc = "inspect" /\ h[p].key # <<>> /\ h'[p].pc = "decide")
               => cache'[1][h[p].key[1]] =
                      [code |-> h'[p].verdict[1] % 1000, exp |-> now + DefaultExpiration]]_vars

\* The lookup of a key missed although the cache holds an entry for it: the
\* entry's time has elapsed, and the handler is about to call the inspector.
C19_Witness ==
    \E p \in Procs :
        /\ h[p].pc = "inspect" /\ h[p].key # <<>>
        /\ h[p].key[1] \in DOMAIN Items
        /\ now > Items[h[p].key[1]].exp
        /\ Items[h[p].key[1]].exp = DefaultExpiration


\* C20: a response object built for a cache hit is put back into the pool
\* only after ServeHTTP has finished with it: while a handler still has the
\* status to read or the response to forward, its object is not in the pool.
C20_PoolAfterUse ==
    \A p \in Procs :
        (h[p].pc \in {"decide", "forward"} /\ h[p].resp # <<>> /\ h[p].resp[1].kind = "pooled")
        => ~heap[h[p].resp[1].obj].inPool


\* C21: of two requests answered from the cache at the same time under
\* different keys, each is allowed or denied by the verdict stored under its
\* own key: the status ServeHTTP acts on is the cached one, a cached denial
\* never reaches the pass-through and a cached allowance reaches it once.
C21_OwnCachedVerdict ==
    \A p \in Procs :
        (h[p].pc = "done" /\ h[p].hit
         /\ \E q \in Procs \ {p} : h[q].hit /\ h[q].key # h[p].key)
        => /\ h[p].status = h[p].verdict
           /\ Denies(h[p].verdict[1]) => h[p].nexts = <<>>
           /\ ~Denies(h[p].verdict[1]) => Len(h[p].nexts) = 1


\* The handler has called the inspector after a miss on its key and stored
\* the answer.
StoredAfterMiss(p) ==
    /\ h[p].pc \in {"decide", "forward", "done"}
    /\ h[p].key # <<>> /\ ~h[p].hit /\ ~h[p].failed /\ h[p].verdict # <<>>

\* C22: under every interleaving of lookups and stores, every entry of the
\* cache is a complete three-digit status the inspector answered; a store
\* writes the status of the storing request's inspector response under that
\* request's key and touches no other entry; a lookup returns the entry
\* under its own key as it is; and of two concurrent misses on one key each
\* calls the inspector once and the entry left is the status one of them
\* stored.
C22_CacheAtomicity ==
    /\ [](cache # <<>>
          => /\ \A k \in DOMAIN Items :
                   Items[k].code \in scenario.statuses /\ Items[k].code \in 100..999
             /\ \A p \in Procs : \A q \in Procs \ {p} :
                   (StoredAfterMiss(p) /\ StoredAfterMiss(q) /\ h[p].key = h[q].key)
                   => /\ h[p].calls = 1 /\ h[q].calls = 1
                      /\ h[p].key[1] \in DOMAIN Items
                         => Items[h[p].key[1]].code \in {h[p].verdict[1] % 1000, h[q].verdict[1] % 1000})
    /\ [][(cache # <<>> /\ cache' # <<>>)
          => \A p \in Procs :
               /\ (h[p].pc = "inspect" /\ h[p].key # <<>> /\ h'[p].pc = "decide")
                  => /\ cache'[1][h[p].key[1]].code = h'[p].verdict[1] % 1000
                     /\ \A k \in DOMAIN Items \ {h[p].key[1]} :
                          k \in DOMAIN cache'[1] /\ cache'[1][k] = Items[k]
               /\ (h[p].pc = "cache" /\ h'[p].pc = "decide")
                  => /\ h'[p].key[1] \in DOMAIN Items
                     /\ h'[p].verdict = <<Items[h'[p].key[1]].code>>
                     /\ cache' = cache]_vars

\* Two concurrent requests missed on the same key, each called the
\* inspector, and the two answers differ.
C22_Witness ==
    \E p \in Procs : \E q \in Procs \ {p} :
        /\ StoredAfterMiss(p) /\ StoredAfterMiss(q)
        /\ h[p].key = h[q].key
        /\ h[p].verdict # h[q].verdict
        /\ h[p].key[1] \in DOMAIN Items


Records(client) ==
    \E p \in Procs :
        /\ h[p].pc = "decide" /\ h'[p] # h[p]
        /\ h[p].req[1].RemoteAddr = client
        /\ jail.enabled /\ h'[p].status = <<403>>

---------------------------------------------------------------------------
(* Adjacent components of the key: two requests whose paths, header values *)
(* and hosts end and begin with the same characters, and the options.      *)

uAB == [path |-> "/ab", query |-> <<>>]

BoundaryRequests ==
    {[Bodyless("GET", u, [k \in {"User-Agent"} |-> <<ua>>], c) EXCEPT !.Host = hst]
     : u \in {uA, uAB}, ua \in {"curl", "curlb"}, hst \in {"h", "bh"}, c \in {"c1"}}

BoundaryOptions ==
    {[IncludeHeaders |-> ih, Headers |-> <<"User-Agent">>, IncludeHost |-> boolPtr(TRUE),
      IncludeRemoteAddress |-> ia]
     : ih \in {boolPtr(FALSE), boolPtr(TRUE)}, ia \in {NilPtr, boolPtr(TRUE)}}

BoundaryInit ==
    /\ kin \in {<<[a |-> ra, b |-> rb, options |-> o]>>
                : ra \in BoundaryRequests, rb \in BoundaryRequests, o \in BoundaryOptions}
    /\ kout = <<>>
    /\ Unused

\* generateCacheKey(a, options) and generateCacheKey(b, options); each
\* request has one header, so the traversal has one order.
DeriveBoundaryKeys ==
    /\ kin # <<>> /\ kout = <<>>
    /\ \E oa \in Perms(DOMAIN kin[1].a.Header), ob \in Perms(DOMAIN kin[1].b.Header) :
         kout' = <<generateCacheKey(kin[1].a, kin[1].options, oa, 0),
                   generateCacheKey(kin[1].b, kin[1].options, ob, 0)>>
    /\ UNCHANGED <<config, mw, cache, cacheSrc, jail, heap, now, h, started, denials,
                   scenario, kin>>

BoundaryNext == DeriveBoundaryKeys

SpecBoundary == BoundaryInit /\ [][BoundaryNext]_vars

\* C26: two requests whose key components (method, normalized URI, included
\* headers, host, remote address) differ under the same options get
\* different digest inputs, hence different keys.
C26_ComponentsDetermined ==
    (kout # <<>> /\ Len(kout) = 2
     /\ KeyComponents(kin[1].a, kin[1].options, 0) # KeyComponents(kin[1].b, kin[1].options, 0))
    => kout[1] # kout[2]


\* C27: when the conditions make requests with bodies cacheable (NoBody
\* unset or false), a request allowed by a verdict taken from the cache has
\* the body the inspector examined when the verdict was stored.
C27_VerdictForSameBody ==
    [][\A p \in Procs :
        (/\ h[p].pc = "cache" /\ h'[p].pc = "decide" /\ h'[p].hit
         /\ Handler.cacheConditions.NoBody \in {NilPtr, boolPtr(FALSE)}
         /\ ~Denies(h'[p].verdict[1]))
        => cacheSrc[h'[p].key[1]].body = h[p].req[1].Body.data]_vars

============================================================================
